---- MODULE Spec2Model ----
(***************************************************************************)
(* Model of device.py: the class Device, a synchronous SCPI client over    *)
(* one TCP socket.  One action per public method; each action is the whole *)
(* method call, from entry to return or raise.  Text is a sequence of      *)
(* one-character strings, so that formatting, strip and split are computed *)
(* as Python computes them.                                                *)
(***************************************************************************)
EXTENDS Integers, Sequences, FiniteSets, TLC

VARIABLES
    closed,           \* self.socket has been closed
    available_modes,  \* self.available_modes: None or a set of strings
    stream,           \* replies written by the instrument, not yet read by recv
    call              \* what the last public call did (observation of the call)

vars == <<closed, available_modes, stream, call>>

-----------------------------------------------------------------------------
(* Bounds and inputs *)

\* The instrument answers a command only while fewer replies than this are unread.
MaxPending == 2

\* socket.recv(1024)
ChunkSize == 1024

-----------------------------------------------------------------------------
(* Text literals of the source *)

\* "*IDN?"
CMD_IDN == <<"*", "I", "D", "N", "?">>
\* ":FREQ:RF:CENT?"
CMD_FREQ_QUERY == <<":", "F", "R", "E", "Q", ":", "R", "F", ":", "C", "E", "N", "T", "?">>
\* ":FREQ:RF:CENT "
CMD_FREQ_SET == <<":", "F", "R", "E", "Q", ":", "R", "F", ":", "C", "E", "N", "T", " ">>
\* "*RST"
CMD_RST == <<"*", "R", "S", "T">>
\* ":INIT:CONT 1"
CMD_CONT_ON == <<":", "I", "N", "I", "T", ":", "C", "O", "N", "T", " ", "1">>
\* ":INIT:CONT 0"
CMD_CONT_OFF == <<":", "I", "N", "I", "T", ":", "C", "O", "N", "T", " ", "0">>
\* ":CALC:MARK"
CMD_MARK == <<":", "C", "A", "L", "C", ":", "M", "A", "R", "K">>
\* ":X "
SUF_X_SET == <<":", "X", " ">>
\* ":MAX"
SUF_MAX == <<":", "M", "A", "X">>
\* ":SYST:ERR?"
CMD_SYST_ERR == <<":", "S", "Y", "S", "T", ":", "E", "R", "R", "?">>
\* ":X?"
SUF_X_QUERY == <<":", "X", "?">>
\* ":Y?"
SUF_Y_QUERY == <<":", "Y", "?">>
\* ":INST:CAT?"
CMD_INST_CAT == <<":", "I", "N", "S", "T", ":", "C", "A", "T", "?">>
\* ":INST:SEL "
CMD_INST_SEL == <<":", "I", "N", "S", "T", ":", "S", "E", "L", " ">>
\* "Execution error; No peak found"
NO_PEAK_TEXT == <<"E", "x", "e", "c", "u", "t", "i", "o", "n", " ", "e", "r", "r", "o", "r", ";", " ", "N", "o", " ", "p", "e", "a", "k", " ", "f", "o", "u", "n", "d">>

NEWLINE == <<"\n">>

-----------------------------------------------------------------------------
(* Python values: None, str, int, list of str, set of str *)

None_ == [type |-> "None"]
Str(s) == [type |-> "str", val |-> s]
IntV(n) == [type |-> "int", val |-> n]
ListV(l) == [type |-> "list", val |-> l]
SetV(S) == [type |-> "set", val |-> S]

\* Python ==: values of different types are never equal (a str is never an int).
PyEq(a, b) == a.type = b.type /\ (a.type = "None" \/ a.val = b.val)

-----------------------------------------------------------------------------
(* Inputs the callers and the instrument choose from *)

\* frequency arguments of set_frequency, on both sides of both range bounds
Frequencies == {-80000001, -80000000, 5, 6}
\* frequency arguments of set_marker
MarkerFrequencies == {1000}
\* marker_number arguments
MarkerNumbers == {1, 2}
\* mode arguments of set_mode
Modes == {<<"S", "A">>, <<"X", "Y", "Z">>}

\* texts the instrument may reply with
REPLY_MODES == <<"S", "A", ",", "P", "N", "\n">>
Replies == {REPLY_MODES, NO_PEAK_TEXT}
\* the instrument's choice on a command: one of the replies, or no reply at all
NoReply == <<>>
ReplyChoices == Replies \cup {NoReply}

-----------------------------------------------------------------------------
(* Pure helpers: formatting and parsing, as Python computes them *)

DIGITS == <<"0", "1", "2", "3", "4", "5", "6", "7", "8", "9">>

RECURSIVE FormatNat(_)
FormatNat(n) ==
    IF n < 10 THEN <<DIGITS[n + 1]>>
    ELSE FormatNat(n \div 10) \o <<DIGITS[(n % 10) + 1]>>

\* f"{value}" of an int: decimal digits, a leading "-" when negative
FormatInt(n) == IF n < 0 THEN <<"-">> \o FormatNat(-n) ELSE FormatNat(n)

\* the characters str.strip() removes when called without an argument
WHITESPACE == {" ", "\t", "\n", "\r"}

RECURSIVE lstrip(_)
lstrip(s) ==
    IF s # <<>> /\ Head(s) \in WHITESPACE THEN lstrip(Tail(s)) ELSE s

RECURSIVE rstrip(_)
rstrip(s) ==
    IF s # <<>> /\ s[Len(s)] \in WHITESPACE
    THEN rstrip(SubSeq(s, 1, Len(s) - 1))
    ELSE s

\* str.strip()
strip(s) == rstrip(lstrip(s))

RECURSIVE SplitFrom(_, _, _)
SplitFrom(s, cur, out) ==
    IF s = <<>> THEN Append(out, cur)
    ELSE IF Head(s) = "," THEN SplitFrom(Tail(s), <<>>, Append(out, cur))
    ELSE SplitFrom(Tail(s), Append(cur, Head(s)), out)

\* str.split(","): every comma separates, empty pieces are kept
split(s) == SplitFrom(s, <<>>, <<>>)

\* set(list)
ToSet(l) == {l[i] : i \in DOMAIN l}

Min(a, b) == IF a < b THEN a ELSE b

RECURSIVE Concat(_, _)
\* the texts of the first n entries of a reply stream, joined
Concat(q, n) == IF n = 0 THEN <<>> ELSE Concat(q, n - 1) \o q[n].text

-----------------------------------------------------------------------------
(* The running call: the object's fields plus what the call has done so far *)

\* entry to a public method
Enter(name, args) ==
    [ op      |-> name,
      arg     |-> args,
      closed0 |-> closed,            \* socket state at entry
      modes0  |-> available_modes,   \* self.available_modes at entry
      closed  |-> closed,
      modes   |-> available_modes,
      stream  |-> stream,
      tried   |-> 0,                 \* calls of _send
      sent    |-> <<>>,              \* lines written to the socket
      nrecv   |-> 0,                 \* calls of socket.recv
      recvd   |-> None_,             \* value of the last _receive
      stale   |-> FALSE,             \* the last recv read a reply to an earlier call
      ret     |-> None_,
      exc     |-> "none" ]

Raised(c) == c.exc # "none"

Raise(c, e) == [c EXCEPT !.exc = e]

Return(c, v) == [c EXCEPT !.ret = v]

\* Every reply still unread when a call ends answers a command of a past call.
Aged(q) == [i \in DOMAIN q |-> [q[i] EXCEPT !.stale = TRUE]]

\* end of the call: the fields are written back, the rest is the observation
Commit(c) ==
    \E d \in {c} :
        /\ closed' = d.closed
        /\ available_modes' = d.modes
        /\ stream' = Aged(d.stream)
        /\ call' = [ op |-> d.op, arg |-> d.arg, closed0 |-> d.closed0,
                     modes0 |-> d.modes0, tried |-> d.tried, sent |-> d.sent,
                     nrecv |-> d.nrecv, recvd |-> d.recvd, stale |-> d.stale,
                     ret |-> d.ret, exc |-> d.exc ]

\* The instrument's side of a written command: it queues its reply, if it makes one.
Answer(q, reply) ==
    IF reply = NoReply \/ Len(q) >= MaxPending THEN q
    ELSE Append(q, [text |-> reply, stale |-> FALSE])

\* mutant: a closed socket is reopened by the next send
_send_Reconnect(c, message, reply) ==
    [c EXCEPT !.closed = FALSE,
              !.tried = @ + 1,
              !.sent = Append(@, message \o NEWLINE),
              !.stream = Answer(@, reply)]

\* mutant: the line terminator is left out
_send_NoNewline(c, message, reply) ==
    IF c.closed
    THEN [c EXCEPT !.tried = @ + 1, !.exc = "OSError"]
    ELSE [c EXCEPT !.tried = @ + 1,
                   !.sent = Append(@, message),
                   !.stream = Answer(@, reply)]

\* Device._send: socket.send(message.encode() + b"\n"); OSError on a closed socket
_send(c, message, reply) ==
    IF c.closed
    THEN [c EXCEPT !.tried = @ + 1, !.exc = "OSError"]
    ELSE [c EXCEPT !.tried = @ + 1,
                   !.sent = Append(@, message \o NEWLINE),
                   !.stream = Answer(@, reply)]

\* mutant: socket.timeout is not caught
_receive_NoCatch(c, k) ==
    LET n    == IF k < Len(c.stream) THEN k ELSE Len(c.stream)
        data == Concat(c.stream, n)
    IN  IF n = 0
        THEN [c EXCEPT !.nrecv = @ + 1, !.recvd = None_, !.stale = FALSE,
                       !.exc = "timeout"]
        ELSE [c EXCEPT !.nrecv = @ + 1,
                       !.recvd = Str(data),
                       !.stale = \E i \in 1..n : c.stream[i].stale,
                       !.stream = SubSeq(c.stream, n + 1, Len(c.stream))]

\* Device._receive: one socket.recv(1024), decoded; None on socket.timeout.
\* k replies have arrived when recv returns; none arrived: the read times out.
_receive(c, k) ==
    LET n    == Min(k, Len(c.stream))
        data == Concat(c.stream, n)
        take == Min(Len(data), ChunkSize)
        rest == SubSeq(data, take + 1, Len(data))
        left == SubSeq(c.stream, n + 1, Len(c.stream))
    IN  IF n = 0
        THEN [c EXCEPT !.nrecv = @ + 1, !.recvd = None_, !.stale = FALSE]
        ELSE [c EXCEPT !.nrecv = @ + 1,
                       !.recvd = Str(SubSeq(data, 1, take)),
                       !.stale = \E i \in 1..n : c.stream[i].stale,
                       !.stream = IF rest = <<>> THEN left
                                  ELSE <<[text |-> rest, stale |-> c.stream[n].stale]>> \o left]

\* what the instrument may answer to the next command written in c
RepliesTo(c) ==
    IF c.closed \/ Raised(c) \/ Len(c.stream) >= MaxPending
    THEN {NoReply} ELSE ReplyChoices

\* how many unread replies may have arrived when the next recv in c returns
\* (0: the read times out)
ArrivalsAt(c) == IF Raised(c) THEN {0} ELSE 0..Len(c.stream)

\* the body every plain method shares: _send(command), then return _receive()
SendAndReceive(c, command, reply, k) ==
    LET c1 == _send(c, command, reply)
        c2 == IF Raised(c1) THEN c1 ELSE _receive(c1, k)
    IN  IF Raised(c2) THEN c2 ELSE Return(c2, c2.recvd)

\* a call of such a method, with the instrument's and the network's choices
Query(c, command) ==
    \E reply \in RepliesTo(c) :
        \E k \in ArrivalsAt(_send(c, command, reply)) :
            Commit(SendAndReceive(c, command, reply, k))

-----------------------------------------------------------------------------
(* Decisions of the methods *)

\* mutant: "and" written for "or", so that no value is ever rejected
FrequencyOutOfRange_And(frequency) == frequency < -80000000 /\ frequency > 5

\* mutant: the two bounds themselves rejected
FrequencyOutOfRange_Strict(frequency) == frequency <= -80000000 \/ frequency >= 5

\* set_frequency: frequency < -80_000_000 or frequency > 5
FrequencyOutOfRange(frequency) == frequency < -80000000 \/ frequency > 5

RECURSIVE StartsWith(_, _)
StartsWith(s, prefix) ==
    \/ prefix = <<>>
    \/ s # <<>> /\ Head(s) = Head(prefix) /\ StartsWith(Tail(s), Tail(prefix))

\* mutant: the error text looked for at the start of the response, not compared
NoPeakFound_Prefix(result) ==
    result.type = "str" /\ StartsWith(result.val, NO_PEAK_TEXT)

\* set_marker_max: result == -200 or result == "Execution error; No peak found"
NoPeakFound(result) ==
    PyEq(result, IntV(-200)) \/ PyEq(result, Str(NO_PEAK_TEXT))

\* mutant: the cache is never trusted, every set_mode queries again
ModesUnknown_Always(c) == TRUE

\* set_mode: self.available_modes is None
ModesUnknown(c) == c.modes.type = "None"

\* set_mode: mode not in self.available_modes
ModeUnavailable(c, mode) == mode \notin c.modes.val

\* _receive().strip().split(","): AttributeError when _receive() returned None
StripSplit(c) ==
    IF c.recvd.type = "None" THEN Raise(c, "AttributeError")
    ELSE Return(c, ListV(split(strip(c.recvd.val))))

\* mutant: the raw response is stored in self.available_modes before it is parsed
QueryModes_AssignFirst(c, reply, k) ==
    LET c1 == _send(c, CMD_INST_CAT, reply)
        c2 == IF Raised(c1) THEN c1
              ELSE LET r == _receive(c1, k) IN [r EXCEPT !.modes = r.recvd]
        c3 == IF Raised(c2) THEN c2 ELSE StripSplit(c2)
    IN  IF Raised(c3) THEN c3
        ELSE LET modes == SetV(ToSet(c3.ret.val))
             IN  [c3 EXCEPT !.modes = modes, !.ret = modes]

\* body of get_available_modes, also run from inside set_mode
QueryModes(c, reply, k) ==
    LET c1 == _send(c, CMD_INST_CAT, reply)
        c2 == IF Raised(c1) THEN c1 ELSE _receive(c1, k)
        c3 == IF Raised(c2) THEN c2 ELSE StripSplit(c2)
    IN  IF Raised(c3) THEN c3
        ELSE LET modes == SetV(ToSet(c3.ret.val))
             IN  [c3 EXCEPT !.modes = modes, !.ret = modes]

-----------------------------------------------------------------------------
(* Construction *)

Init ==
    /\ closed = FALSE
    /\ available_modes = None_
    /\ stream = <<>>
    /\ call = [ op |-> "__init__", arg |-> <<>>, closed0 |-> FALSE,
                modes0 |-> None_, tried |-> 0, sent |-> <<>>, nrecv |-> 0,
                recvd |-> None_, stale |-> FALSE, ret |-> None_, exc |-> "none" ]

-----------------------------------------------------------------------------
(* The public methods *)

get_device_info ==
    LET c0 == Enter("get_device_info", <<>>)
    IN  \E reply \in RepliesTo(c0) :
            LET c1 == _send(c0, CMD_IDN, reply)
            IN  \E k \in ArrivalsAt(c1) :
                    LET c2 == IF Raised(c1) THEN c1 ELSE _receive(c1, k)
                    IN  Commit(IF Raised(c2) THEN c2 ELSE StripSplit(c2))

get_frequency ==
    Query(Enter("get_frequency", <<>>), CMD_FREQ_QUERY)

set_frequency ==
    \E frequency \in Frequencies :
        LET c0 == Enter("set_frequency", <<frequency>>)
        IN  IF FrequencyOutOfRange(frequency)
            THEN Commit(Raise(c0, "ValueError"))
            ELSE Query(c0, CMD_FREQ_SET \o FormatInt(frequency))

reset ==
    Query(Enter("reset", <<>>), CMD_RST)

continuous_measurement ==
    Query(Enter("continuous_measurement", <<>>), CMD_CONT_ON)

single_measurement ==
    Query(Enter("single_measurement", <<>>), CMD_CONT_OFF)

set_marker ==
    \E frequency \in MarkerFrequencies, marker_number \in MarkerNumbers :
        Query(Enter("set_marker", <<frequency, marker_number>>),
              CMD_MARK \o FormatInt(marker_number) \o SUF_X_SET \o FormatInt(frequency))

set_marker_max ==
    \E marker_number \in MarkerNumbers :
        LET c0 == Enter("set_marker_max", <<marker_number>>)
        IN  \E reply1 \in RepliesTo(c0) :
                LET c1 == _send(c0, CMD_MARK \o FormatInt(marker_number) \o SUF_MAX, reply1)
                IN  \E reply2 \in RepliesTo(c1) :
                        LET c2 == IF Raised(c1) THEN c1 ELSE _send(c1, CMD_SYST_ERR, reply2)
                        IN  \E k \in ArrivalsAt(c2) :
                                LET c3 == IF Raised(c2) THEN c2 ELSE _receive(c2, k)
                                IN  Commit(IF Raised(c3) THEN c3
                                           ELSE IF NoPeakFound(c3.recvd)
                                                THEN Raise(c3, "ValueError")
                                                ELSE c3)

get_marker_Xaxis ==
    \E marker_number \in MarkerNumbers :
        Query(Enter("get_marker_Xaxis", <<marker_number>>),
              CMD_MARK \o FormatInt(marker_number) \o SUF_X_QUERY)

get_marker_Yaxis ==
    \E marker_number \in MarkerNumbers :
        Query(Enter("get_marker_Yaxis", <<marker_number>>),
              CMD_MARK \o FormatInt(marker_number) \o SUF_Y_QUERY)

get_available_modes ==
    LET c0 == Enter("get_available_modes", <<>>)
    IN  \E reply \in RepliesTo(c0) :
            \E k \in ArrivalsAt(_send(c0, CMD_INST_CAT, reply)) :
                Commit(QueryModes(c0, reply, k))

\* mutant: the mode is selected before it is validated
set_mode_SendFirst ==
    \E mode \in Modes :
        LET c0 == Enter("set_mode", <<mode>>)
        IN  \E reply1 \in (IF ModesUnknown(c0) THEN RepliesTo(c0) ELSE {NoReply}) :
            \E k \in (IF ModesUnknown(c0)
                      THEN ArrivalsAt(_send(c0, CMD_INST_CAT, reply1)) ELSE {0}) :
                LET c1 == IF ModesUnknown(c0) THEN QueryModes(c0, reply1, k) ELSE c0
                IN  \E reply2 \in RepliesTo(c1) :
                        LET c2 == IF Raised(c1) THEN c1
                                  ELSE _send(c1, CMD_INST_SEL \o mode, reply2)
                            c3 == IF Raised(c2) THEN c2
                                  ELSE IF ModeUnavailable(c2, mode)
                                       THEN Raise(c2, "ValueError")
                                       ELSE c2
                        IN  Commit(IF Raised(c3) THEN c3 ELSE Return(c3, None_))

set_mode ==
    \E mode \in Modes :
        LET c0 == Enter("set_mode", <<mode>>)
        IN  \E reply1 \in (IF ModesUnknown(c0) THEN RepliesTo(c0) ELSE {NoReply}) :
            \E k \in (IF ModesUnknown(c0)
                      THEN ArrivalsAt(_send(c0, CMD_INST_CAT, reply1)) ELSE {0}) :
                LET c1 == IF ModesUnknown(c0) THEN QueryModes(c0, reply1, k) ELSE c0
                IN  \E reply2 \in RepliesTo(c1) :
                        LET c2 == IF Raised(c1) THEN c1
                                  ELSE IF ModeUnavailable(c1, mode)
                                       THEN Raise(c1, "ValueError")
                                       ELSE _send(c1, CMD_INST_SEL \o mode, reply2)
                        IN  Commit(IF Raised(c2) THEN c2 ELSE Return(c2, None_))

\* socket.close(): the unread data is dropped; closing a closed socket object
\* is a no-op
close ==
    Commit([Enter("close", <<>>) EXCEPT !.closed = TRUE, !.stream = <<>>])

Next ==
    \/ get_device_info
    \/ get_frequency
    \/ set_frequency
    \/ reset
    \/ continuous_measurement
    \/ single_measurement
    \/ set_marker
    \/ set_marker_max
    \/ get_marker_Xaxis
    \/ get_marker_Yaxis
    \/ get_available_modes
    \/ set_mode
    \/ close

Spec == Init /\ [][Next]_vars

-----------------------------------------------------------------------------
(* Vocabulary of the properties *)

\* the methods that return one raw _receive()
RawOps == { "get_frequency", "set_frequency", "reset", "continuous_measurement",
            "single_measurement", "set_marker", "get_marker_Xaxis",
            "get_marker_Yaxis" }

\* the methods that write one command and read one reply, whatever their input
OneCommandOps == { "get_device_info", "get_frequency", "reset",
                   "continuous_measurement", "single_measurement", "set_marker",
                   "get_marker_Xaxis", "get_marker_Yaxis", "get_available_modes" }

ModeOps == { "get_available_modes", "set_mode" }

Connected == ~call.closed0

CacheWasSet == call.modes0.type = "set"

CacheWasAbsent == call.modes0.type = "None"

CacheUnchanged == PyEq(available_modes, call.modes0)

\* the lines as they must appear on the wire, written out character by character
LINE_FREQ_LOW == <<":", "F", "R", "E", "Q", ":", "R", "F", ":", "C", "E", "N", "T", " ", "-", "8", "0", "0", "0", "0", "0", "0", "0", "\n">>
LINE_FREQ_HIGH == <<":", "F", "R", "E", "Q", ":", "R", "F", ":", "C", "E", "N", "T", " ", "5", "\n">>
LINE_MAX_1 == <<":", "C", "A", "L", "C", ":", "M", "A", "R", "K", "1", ":", "M", "A", "X", "\n">>
LINE_MAX_2 == <<":", "C", "A", "L", "C", ":", "M", "A", "R", "K", "2", ":", "M", "A", "X", "\n">>
LINE_SYST_ERR == <<":", "S", "Y", "S", "T", ":", "E", "R", "R", "?", "\n">>
LINE_INST_CAT == <<":", "I", "N", "S", "T", ":", "C", "A", "T", "?", "\n">>
LINE_SEL_SA == <<":", "I", "N", "S", "T", ":", "S", "E", "L", " ", "S", "A", "\n">>
LINE_SEL_XYZ == <<":", "I", "N", "S", "T", ":", "S", "E", "L", " ", "X", "Y", "Z", "\n">>

ExpectedFrequencyLine(f) == IF f = 5 THEN LINE_FREQ_HIGH ELSE LINE_FREQ_LOW
ExpectedMaxLine(n) == IF n = 1 THEN LINE_MAX_1 ELSE LINE_MAX_2
ExpectedSelLine(m) == IF m = <<"S", "A">> THEN LINE_SEL_SA ELSE LINE_SEL_XYZ

\* a written line ends in a newline
LineTerminated(line) == Len(line) >= 1 /\ line[Len(line)] = "\n"

Occurrences(q, line) == Cardinality({i \in DOMAIN q : q[i] = line})

-----------------------------------------------------------------------------
(* C1 *)

-----------------------------------------------------------------------------
(* C7 *)

\* C7: for every frequency in [-80,000,000, 5], both bounds included, set_frequency
\* on a connected client writes the one line ":FREQ:RF:CENT {value}" with the
\* caller's value in decimal, performs one receive and returns what it received.
C7_InRangeFrequencySent ==
    (call.op = "set_frequency" /\ Connected
        /\ call.arg[1] >= -80000000 /\ call.arg[1] <= 5)
        => /\ call.exc = "none"
           /\ call.sent = <<ExpectedFrequencyLine(call.arg[1])>>
           /\ call.nrecv = 1
           /\ PyEq(call.ret, call.recvd)

\* the lower bound itself is accepted, sent, and a reply comes back
C7_Witness ==
    /\ call.op = "set_frequency"
    /\ call.arg[1] = -80000000
    /\ call.sent = <<LINE_FREQ_LOW>>
    /\ call.ret.type = "str"

-----------------------------------------------------------------------------
(* C5 *)

\* C5: when the read times out, _receive yields None without raising, and every
\* method that returns a raw receive returns None without raising, the client
\* still connected and its cache unchanged.
C5_TimeoutIsAbsence ==
    (call.op \in RawOps /\ call.nrecv = 1 /\ call.recvd.type = "None")
        => /\ call.exc = "none"
           /\ call.ret.type = "None"
           /\ ~closed
           /\ CacheUnchanged

\* a read that timed out in get_frequency, with a populated cache to preserve
C5_Witness ==
    /\ call.op = "get_frequency"
    /\ call.nrecv = 1
    /\ call.recvd.type = "None"
    /\ call.exc = "none"
    /\ available_modes.type = "set"

-----------------------------------------------------------------------------
(* C6 *)

\* C6: on a connected client set_marker_max(n) writes ":CALC:MARK{n}:MAX" and then
\* ":SYST:ERR?", performs one receive, and raises the no-peak error exactly when
\* the received text is "Execution error; No peak found"; for any other text, and
\* for None on timeout, it returns None without raising.
C6_NoPeakExactly ==
    (call.op = "set_marker_max" /\ Connected)
        => /\ call.sent = <<ExpectedMaxLine(call.arg[1]), LINE_SYST_ERR>>
           /\ call.nrecv = 1
           /\ call.exc \in {"none", "ValueError"}
           /\ (call.exc = "ValueError" <=> PyEq(call.recvd, Str(NO_PEAK_TEXT)))
           /\ call.ret.type = "None"

\* the no-peak error is raised
C6_Witness ==
    /\ call.op = "set_marker_max"
    /\ call.arg[1] = 2
    /\ call.exc = "ValueError"
    /\ PyEq(call.recvd, Str(NO_PEAK_TEXT))

-----------------------------------------------------------------------------
(* C8 *)

\* the methods that call _send on every path, whatever their input and the cache
AlwaysSendingOps == OneCommandOps \cup {"set_marker_max"}

\* C8: closed is terminal. A call made on a closed client leaves it closed, and
\* every such call that reaches a _send fails there with an error: nothing is
\* written and nothing is read.
C8_ClosedIsTerminal ==
    call.closed0
        => /\ closed
           /\ call.sent = <<>>
           /\ call.nrecv = 0
           /\ (call.tried > 0 => call.tried = 1 /\ call.exc = "OSError")
           /\ (call.op \in AlwaysSendingOps => call.tried = 1)

\* a query attempted after close fails in its send
C8_Witness ==
    /\ call.closed0
    /\ call.op = "get_frequency"
    /\ call.tried = 1
    /\ call.exc = "OSError"

-----------------------------------------------------------------------------
(* C9 *)

\* C9: the cache is absent after construction; a call changes it only if it ran
\* the mode query (get_available_modes, or set_mode entered with an absent cache)
\* and that query received a text; a mode query whose read timed out raises and
\* leaves it unchanged; a cache that held a set at entry holds a set at exit.
C9_CacheFrame ==
    /\ call.op = "__init__" => available_modes.type = "None"
    /\ ~CacheUnchanged
          => /\ call.op \in ModeOps
             /\ call.op = "set_mode" => CacheWasAbsent
             /\ call.nrecv = 1
             /\ call.recvd.type = "str"
             /\ available_modes.type = "set"
    /\ (call.op \in ModeOps /\ call.nrecv = 1 /\ call.recvd.type = "None")
          => call.exc = "AttributeError" /\ CacheUnchanged
    /\ CacheWasSet => available_modes.type = "set"

\* an explicit re-query replaces a populated cache by a different set
C9_Witness ==
    /\ call.op = "get_available_modes"
    /\ CacheWasSet
    /\ available_modes.type = "set"
    /\ ~CacheUnchanged

-----------------------------------------------------------------------------
(* C3 *)

\* C3: a set_mode entered with a populated cache never writes ":INST:CAT?" and
\* never reads; it calls _send exactly when the mode is in the cached set, and on
\* a connected client that writes the one line ":INST:SEL {mode}".  A set_mode
\* entered with an absent cache on a connected client writes ":INST:CAT?" exactly
\* once, as its first line, before any ":INST:SEL".
C3_SetModeUsesCache ==
    call.op = "set_mode"
        => /\ CacheWasSet
              => /\ Occurrences(call.sent, LINE_INST_CAT) = 0
                 /\ call.nrecv = 0
                 /\ call.tried = (IF call.arg[1] \in call.modes0.val THEN 1 ELSE 0)
                 /\ Connected
                       => call.sent = (IF call.arg[1] \in call.modes0.val
                                       THEN <<ExpectedSelLine(call.arg[1])>>
                                       ELSE <<>>)
           /\ (CacheWasAbsent /\ Connected)
              => /\ Len(call.sent) \in {1, 2}
                 /\ call.sent[1] = LINE_INST_CAT
                 /\ Occurrences(call.sent, LINE_INST_CAT) = 1
                 /\ Len(call.sent) = 2 => call.sent[2] = ExpectedSelLine(call.arg[1])

\* the cache, populated earlier, admits the mode: one line, no query
C3_Witness ==
    /\ call.op = "set_mode"
    /\ CacheWasSet
    /\ Connected
    /\ call.sent = <<LINE_SEL_SA>>

-----------------------------------------------------------------------------
(* C2 *)

\* C2 as stated: whenever set_mode raises the validation error, the call has
\* written nothing and read nothing, whether or not the cache was populated.
C2_ValidationBeforeAnyIO ==
    (call.op = "set_mode" /\ call.exc = "ValueError")
        => call.sent = <<>> /\ call.nrecv = 0

\* C2 amended: a set_mode that raises the validation error never writes
\* ":INST:SEL". Entered with a populated cache it has done no I/O at all; entered
\* with an absent cache it has written ":INST:CAT?" once and received once.
C2_ValidationBeforeSelect ==
    (call.op = "set_mode" /\ call.exc = "ValueError")
        => /\ CacheWasSet => (call.tried = 0 /\ call.sent = <<>> /\ call.nrecv = 0)
           /\ CacheWasAbsent
                 => (call.sent = <<LINE_INST_CAT>> /\ call.nrecv = 1
                        /\ call.recvd.type = "str")
           /\ call.arg[1] \notin available_modes.val

\* the validation error raised right after the lazy query
C2_Witness ==
    /\ call.op = "set_mode"
    /\ call.exc = "ValueError"
    /\ CacheWasAbsent
    /\ call.sent = <<LINE_INST_CAT>>

-----------------------------------------------------------------------------
(* C4 *)

\* C4 as stated, read in its most favourable sense (a connected client, a call
\* that talks to the instrument and raises no validation or no-peak error): the
\* call writes exactly one line and performs at most one receive.
C4_OneCommandPerCall ==
    (Connected /\ call.op \notin {"__init__", "close"} /\ call.exc # "ValueError")
        => Len(call.sent) = 1 /\ call.nrecv <= 1

\* the number of lines a call on a connected client writes
ExpectedLines ==
    CASE call.op \in OneCommandOps -> 1
      [] call.op = "set_frequency" ->
            IF call.arg[1] < -80000000 \/ call.arg[1] > 5 THEN 0 ELSE 1
      [] call.op = "set_marker_max" -> 2
      [] call.op = "set_mode" /\ CacheWasSet ->
            IF call.arg[1] \in call.modes0.val THEN 1 ELSE 0
      [] call.op = "set_mode" /\ CacheWasAbsent ->
            IF call.exc = "none" THEN 2 ELSE 1
      [] OTHER -> 0

\* the number of receives a call on a connected client performs
ExpectedReceives ==
    CASE call.op \in OneCommandOps \cup {"set_marker_max"} -> 1
      [] call.op = "set_frequency" ->
            IF call.arg[1] < -80000000 \/ call.arg[1] > 5 THEN 0 ELSE 1
      [] call.op = "set_mode" /\ CacheWasAbsent -> 1
      [] OTHER -> 0

\* C4 amended: every command a call writes ends in a newline, and no call
\* performs more than one receive. On a connected client every method other
\* than set_marker_max, set_mode, close and an out-of-range set_frequency writes
\* exactly one line and receives exactly once; set_marker_max writes two lines
\* and receives once; set_mode writes nothing (cache populated, mode not in it),
\* one line (cache populated, mode in it), or ":INST:CAT?" with one receive and
\* then ":INST:SEL" only if the mode is available (cache absent); close and an
\* out-of-range set_frequency write nothing. On a closed client nothing is
\* written or read.
C4_LinesPerCall ==
    /\ \A i \in DOMAIN call.sent : LineTerminated(call.sent[i])
    /\ call.nrecv <= 1
    /\ Connected => (Len(call.sent) = ExpectedLines /\ call.nrecv = ExpectedReceives)
    /\ call.closed0 => (call.sent = <<>> /\ call.nrecv = 0)

\* set_marker_max has written its two lines and read once
C4_Witness ==
    /\ call.op = "set_marker_max"
    /\ Len(call.sent) = 2
    /\ call.nrecv = 1
    /\ call.exc = "none"

-----------------------------------------------------------------------------
(* C10 *)

\* C10: the text a call receives is never the instrument's reply to a command
\* written by an earlier call.
C10_NoStaleReply ==
    call.recvd.type = "str" => ~call.stale

====
